---- MODULE Spec2Model ----
(***************************************************************************)
(* A model of geatpy's Population class (src/geatpy/Population.py): the    *)
(* container of row-aligned attribute matrices (Chrom, ObjV, FitnV, CV,    *)
(* Phen) and its operations: construction, initChrom, decoding, copy,      *)
(* indexed read, shuffle, indexed assignment, merge and len.               *)
(* save() writes the attributes to files and assigns nothing; it is not   *)
(* an action of the model.                                                 *)
(*                                                                         *)
(* A matrix is a record [present, dt, nc, rows]: present = FALSE is        *)
(* Python's None; dt is the numpy dtype ("f" float64, "O" object); nc is   *)
(* shape[1]; rows is the sequence of rows, Len(rows) = shape[0].  Row      *)
(* indices are 0-based as in the code, so row k is rows[k + 1].            *)
(***************************************************************************)
EXTENDS Integers, Sequences, FiniteSets, TLC

VARIABLES pop, last, nbin, nops

vars == <<pop, last, nbin, nops>>

(* ------------------------------ bounds -------------------------------- *)

\* Largest population size passed to a constructor or to initChrom, and
\* the longest index sequence.
MaxN == 2

\* How many two-population operations (indexed assignment, merge) take
\* effect in one run; it keeps the merged sizes finite.
MaxBinary == 1

\* How many calls that change pop (initChrom, shuffle, indexed assignment,
\* the binding of a returned population) one run makes after construction.
MaxOps == 2

(* --------------------------- numpy values ----------------------------- *)

\* float('nan'): what numpy stores when None is assigned into a float array.
NaN == -1

\* The Python object None held as an element of an object array.
NoneV == -2

\* The default NIND = None of initChrom.
NoNIND == -1

NoneM == [present |-> FALSE, dt |-> "f", nc |-> 0, rows |-> <<>>]

Mat(nc, rows) == [present |-> TRUE, dt |-> "f", nc |-> nc, rows |-> rows]

Shape0(M) == Len(M.rows)

Range(s) == {s[i] : i \in 1..Len(s)}

\* np.ones((n, 1))
Ones(n) == Mat(1, [i \in 1..n |-> <<1>>])

\* Storing value v into an array of dtype dt: a float array turns None
\* into nan, an object array keeps the object.
Conv(dt, v) == IF dt = "f" /\ v = NoneV THEN NaN ELSE v

\* M[index] (and M[index, :]) for an integer index array: a gather of rows.
Take(M, index) ==
    IF ~M.present THEN [err |-> "TypeError", m |-> NoneM]
    ELSE IF \E i \in 1..Len(index) : index[i] \notin 0..(Shape0(M) - 1)
    THEN [err |-> "IndexError", m |-> NoneM]
    ELSE [err |-> "",
          m |-> [M EXCEPT !.rows = [i \in 1..Len(index) |-> M.rows[index[i] + 1]]]]

\* The ways numpy may resolve an assignment through an index array in
\* which a position occurs more than once: for each position, the
\* occurrence whose value remains.
Winners(index) ==
    {w \in [Range(index) -> 1..Len(index)] : \A p \in Range(index) : index[w[p]] = p}

\* M[index] = V, the value V broadcast to the shape (len(index), nc).
Put(M, index, V, w) ==
    IF ~M.present THEN [err |-> "TypeError", m |-> M]
    ELSE IF \E i \in 1..Len(index) : index[i] \notin 0..(Shape0(M) - 1)
    THEN [err |-> "IndexError", m |-> M]
    ELSE IF ~V.present
    THEN [err |-> "",
          m |-> [M EXCEPT !.rows =
                   [k \in 1..Shape0(M) |->
                      IF (k - 1) \in Range(index)
                      THEN [j \in 1..M.nc |-> Conv(M.dt, NoneV)]
                      ELSE M.rows[k]]]]
    ELSE IF ~(  (Shape0(V) = Len(index) \/ Shape0(V) = 1)
             /\ (V.nc = M.nc \/ V.nc = 1))
    THEN [err |-> "ValueError", m |-> M]
    ELSE [err |-> "",
          m |-> [M EXCEPT !.rows =
                   [k \in 1..Shape0(M) |->
                      IF (k - 1) \in Range(index)
                      THEN LET i == IF Shape0(V) = 1 THEN 1 ELSE w[k - 1]
                           IN  [j \in 1..M.nc |->
                                  Conv(M.dt, V.rows[i][IF V.nc = 1 THEN 1 ELSE j])]
                      ELSE M.rows[k]]]]

\* np.atleast_2d(x): None becomes the 1 x 1 object array [[None]].
AtLeast2d(M) ==
    IF M.present THEN M
    ELSE [present |-> TRUE, dt |-> "O", nc |-> 1, rows |-> <<<<NoneV>>>>]

\* np.vstack([A, B])
VStack(A, B) ==
    LET a == AtLeast2d(A)
        b == AtLeast2d(B)
    IN  IF a.nc # b.nc THEN [err |-> "ValueError", m |-> NoneM]
        ELSE [err |-> "",
              m |-> [present |-> TRUE,
                     dt |-> IF a.dt = "O" \/ b.dt = "O" THEN "O" ELSE "f",
                     nc |-> a.nc,
                     rows |-> a.rows \o b.rows]]

(* ---------------------------- Population ------------------------------ *)

Encodings == {"BG", "RI", "P", "None"}

\* Field = None
NoField == 0

NoPop == [sizes |-> -1, Encoding |-> "None", Field |-> NoField, Chrom |-> NoneM,
          Lind |-> 0, ObjV |-> NoneM, FitnV |-> NoneM, CV |-> NoneM, Phen |-> NoneM]

Ok(self, ret) == [err |-> "", self |-> self, ret |-> ret]

Raise(e, self) == [err |-> e, self |-> self, ret |-> NoPop]

\* Population.__init__ with the fitness argument stored as the other
\* optional attributes are: nothing supplied, nothing held.
NewPopulationFitnessAsGiven(Encoding, Field, NIND, Chrom, ObjV, FitnV, CV, Phen) ==
    IF ~(NIND >= 0) THEN Raise("RuntimeError", NoPop)
    ELSE IF Encoding # "None" /\ Field = NoField THEN Raise("AttributeError", NoPop)
    ELSE Ok(NoPop,
            [sizes    |-> NIND,
             Encoding |-> Encoding,
             Field    |-> IF Encoding = "None" THEN NoField ELSE Field,
             Chrom    |-> IF Encoding = "None" THEN NoneM ELSE Chrom,
             Lind     |-> IF Chrom.present THEN Chrom.nc ELSE 0,
             ObjV     |-> ObjV,
             FitnV    |-> FitnV,
             CV       |-> CV,
             Phen     |-> Phen])

\* Population.__init__: the new object in ret.
NewPopulation(Encoding, Field, NIND, Chrom, ObjV, FitnV, CV, Phen) ==
    IF ~(NIND >= 0) THEN Raise("RuntimeError", NoPop)
    ELSE IF Encoding # "None" /\ Field = NoField THEN Raise("AttributeError", NoPop)
    ELSE Ok(NoPop,
            [sizes    |-> NIND,
             Encoding |-> Encoding,
             Field    |-> IF Encoding = "None" THEN NoField ELSE Field,
             Chrom    |-> IF Encoding = "None" THEN NoneM ELSE Chrom,
             Lind     |-> IF Chrom.present THEN Chrom.nc ELSE 0,
             ObjV     |-> ObjV,
             FitnV    |-> IF FitnV.present THEN FitnV ELSE Ones(NIND),
             CV       |-> CV,
             Phen     |-> Phen])

(* ----------------- collaborators: generator and codec ------------------ *)

\* The cell values a generated chromosome row is built from.
Vals == {0, 1}

\* A row of L cells standing for individual v: <<v>>, or <<v, 1 - v>>.
RowOf(v, L) == [j \in 1..L |-> (v + j - 1) % 2]

\* ea.crtpc(Encoding, NIND, Field): the possible outcomes.  For a scheme
\* with a decode field an NIND x L matrix, L read from the decode field;
\* no matrix is appropriate to any other scheme, and the generator refuses.
crtpc(Encoding, NIND, Field) ==
    IF Encoding \in {"BG", "RI", "P"}
    THEN {[err |-> "", m |-> Mat(Field, rows)] :
             rows \in [1..NIND -> {RowOf(v, Field) : v \in Vals}]}
    ELSE {[err |-> "RuntimeError", m |-> NoneM]}

\* The integer a row of bits spells, most significant bit first.
BinVal(row) ==
    LET f[j \in 0..Len(row)] == IF j = 0 THEN 0 ELSE 2 * f[j - 1] + row[j]
    IN  f[Len(row)]

\* ea.bs2ri(Chrom, Field): a pure function of a bit matrix, one decoded
\* row per chromosome row.
bs2ri(Chrom, Field) ==
    IF ~Chrom.present THEN [err |-> "TypeError", m |-> NoneM]
    ELSE IF \E i \in 1..Shape0(Chrom) : \E j \in 1..Chrom.nc : Chrom.rows[i][j] \notin {0, 1}
    THEN [err |-> "ValueError", m |-> NoneM]
    ELSE [err |-> "",
          m |-> Mat(1, [i \in 1..Shape0(Chrom) |-> <<BinVal(Chrom.rows[i])>>])]

(* ------------------------------ methods ------------------------------- *)

\* Population.decoding: the matrix returned, or the error raised.
decoding(self) ==
    IF self.Encoding = "BG" THEN bs2ri(self.Chrom, self.Field)
    ELSE IF self.Encoding = "RI" \/ self.Encoding = "P"
    THEN IF self.Chrom.present THEN [err |-> "", m |-> self.Chrom]
         ELSE [err |-> "AttributeError", m |-> NoneM]
    ELSE [err |-> "RuntimeError", m |-> NoneM]

\* Population.initChrom(NIND), c being what ea.crtpc returns or raises.
initChrom(self, NIND, c) ==
    LET s1 == IF NIND # NoNIND THEN [self EXCEPT !.sizes = NIND] ELSE self
    IN  IF c.err # "" THEN Raise(c.err, s1)
        ELSE LET s2 == [s1 EXCEPT !.Chrom = c.m, !.Lind = c.m.nc, !.ObjV = NoneM,
                                  !.FitnV = Ones(s1.sizes), !.CV = NoneM]
                 d  == decoding(s2)
             IN  IF d.err # "" THEN Raise(d.err, s2)
                 ELSE Ok([s2 EXCEPT !.Phen = d.m], NoPop)

\* The size initChrom hands to ea.crtpc.
initSize(self, NIND) == IF NIND # NoNIND THEN NIND ELSE self.sizes

\* Population.copy
copy(self) ==
    LET r == NewPopulation(self.Encoding, self.Field, self.sizes, self.Chrom,
                           self.ObjV, self.FitnV, self.CV, self.Phen)
    IN  [r EXCEPT !.self = self]

\* Population.__getitem__
getitem(self, index) ==
    LET c  == Take(self.Chrom, index)
        f  == Take(self.FitnV, index)
        o  == Take(self.ObjV, index)
        cv == Take(self.CV, index)
        ph == Take(self.Phen, index)
    IN  IF self.Encoding # "None" /\ ~self.Chrom.present THEN Raise("RuntimeError", self)
        ELSE IF self.Encoding # "None" /\ c.err # "" THEN Raise(c.err, self)
        ELSE IF f.err # "" THEN Raise(f.err, self)
        ELSE IF self.ObjV.present /\ o.err # "" THEN Raise(o.err, self)
        ELSE IF self.CV.present /\ cv.err # "" THEN Raise(cv.err, self)
        ELSE IF ph.err # "" THEN Raise(ph.err, self)
        ELSE LET r == NewPopulation(self.Encoding, self.Field, Shape0(f.m),
                                    IF self.Encoding = "None" THEN NoneM ELSE c.m,
                                    IF self.ObjV.present THEN o.m ELSE self.ObjV,
                                    f.m,
                                    IF self.CV.present THEN cv.m ELSE self.CV,
                                    ph.m)
             IN  [r EXCEPT !.self = self]

\* Population.shuffle, shuff being np.argsort(np.random.rand(self.sizes)).
shuffle(self, shuff) ==
    LET c  == Take(self.Chrom, shuff)
        s1 == IF self.Encoding = "None" THEN [self EXCEPT !.Chrom = NoneM]
              ELSE [self EXCEPT !.Chrom = c.m]
        o  == Take(s1.ObjV, shuff)
        s2 == IF s1.ObjV.present THEN [s1 EXCEPT !.ObjV = o.m] ELSE s1
        f  == Take(s2.FitnV, shuff)
        s3 == [s2 EXCEPT !.FitnV = f.m]
        cv == Take(s3.CV, shuff)
        s4 == IF s3.CV.present THEN [s3 EXCEPT !.CV = cv.m] ELSE s3
        ph == Take(s4.Phen, shuff)
    IN  IF self.Encoding # "None" /\ ~self.Chrom.present THEN Raise("RuntimeError", self)
        ELSE IF self.Encoding # "None" /\ c.err # "" THEN Raise(c.err, self)
        ELSE IF s1.ObjV.present /\ o.err # "" THEN Raise(o.err, s1)
        ELSE IF f.err # "" THEN Raise(f.err, s2)
        ELSE IF s3.CV.present /\ cv.err # "" THEN Raise(cv.err, s3)
        ELSE IF ph.err # "" THEN Raise(ph.err, s4)
        ELSE Ok([s4 EXCEPT !.Phen = ph.m], NoPop)

\* The checks __setitem__ makes of an encoded target before it writes.
setitemCheck(self, index, src) ==
    IF self.Encoding = "None" THEN ""
    ELSE IF self.Encoding # src.Encoding THEN "RuntimeError"
    ELSE IF self.Field # src.Field THEN "RuntimeError"
    ELSE IF Len(index) # src.sizes THEN "RuntimeError"
    ELSE IF ~self.Chrom.present THEN "RuntimeError"
    ELSE IF self.CV.present # src.CV.present THEN "RuntimeError"
    ELSE ""

\* Population.__setitem__ without the line that copies the fitness rows.
setitemSkipFitness(self, index, src, w) ==
    LET c  == Put(self.Chrom, index, src.Chrom, w)
        s1 == IF self.Encoding = "None" THEN self ELSE [self EXCEPT !.Chrom = c.m]
        o  == Put(s1.ObjV, index, src.ObjV, w)
        s2 == [s1 EXCEPT !.ObjV = o.m]
        cv == Put(s2.CV, index, src.CV, w)
        s4 == IF s2.CV.present THEN [s2 EXCEPT !.CV = cv.m] ELSE s2
        ph == Put(s4.Phen, index, src.Phen, w)
        s5 == [s4 EXCEPT !.Phen = ph.m]
    IN  IF setitemCheck(self, index, src) # "" THEN Raise(setitemCheck(self, index, src), self)
        ELSE IF self.Encoding # "None" /\ c.err # "" THEN Raise(c.err, self)
        ELSE IF o.err # "" THEN Raise(o.err, s1)
        ELSE IF s2.CV.present /\ cv.err # "" THEN Raise(cv.err, s2)
        ELSE IF ph.err # "" THEN Raise(ph.err, s4)
        ELSE Ok([s5 EXCEPT !.sizes = Shape0(s5.Phen)], NoPop)

\* Population.__setitem__: self[index] = src, one attribute after the
\* other; w resolves the positions index names more than once.
setitem(self, index, src, w) ==
    LET c  == Put(self.Chrom, index, src.Chrom, w)
        s1 == IF self.Encoding = "None" THEN self ELSE [self EXCEPT !.Chrom = c.m]
        o  == Put(s1.ObjV, index, src.ObjV, w)
        s2 == [s1 EXCEPT !.ObjV = o.m]
        f  == Put(s2.FitnV, index, src.FitnV, w)
        s3 == [s2 EXCEPT !.FitnV = f.m]
        cv == Put(s3.CV, index, src.CV, w)
        s4 == IF s3.CV.present THEN [s3 EXCEPT !.CV = cv.m] ELSE s3
        ph == Put(s4.Phen, index, src.Phen, w)
        s5 == [s4 EXCEPT !.Phen = ph.m]
    IN  IF setitemCheck(self, index, src) # "" THEN Raise(setitemCheck(self, index, src), self)
        ELSE IF self.Encoding # "None" /\ c.err # "" THEN Raise(c.err, self)
        ELSE IF o.err # "" THEN Raise(o.err, s1)
        ELSE IF f.err # "" THEN Raise(f.err, s2)
        ELSE IF s3.CV.present /\ cv.err # "" THEN Raise(cv.err, s3)
        ELSE IF ph.err # "" THEN Raise(ph.err, s4)
        ELSE Ok([s5 EXCEPT !.sizes = Shape0(s5.Phen)], NoPop)

\* The checks __add__ makes of an encoded self before it concatenates.
addCheck(self, src) ==
    IF self.Encoding = "None" THEN ""
    ELSE IF self.Encoding # src.Encoding THEN "RuntimeError"
    ELSE IF self.Field # src.Field THEN "RuntimeError"
    ELSE IF ~self.Chrom.present \/ ~src.Chrom.present THEN "RuntimeError"
    ELSE IF self.CV.present # src.CV.present THEN "RuntimeError"
    ELSE ""

\* Population.__add__: self + src
add(self, src) ==
    LET c  == VStack(self.Chrom, src.Chrom)
        o  == VStack(self.ObjV, src.ObjV)
        f  == VStack(self.FitnV, src.FitnV)
        cv == VStack(self.CV, src.CV)
        ph == VStack(self.Phen, src.Phen)
    IN  IF addCheck(self, src) # "" THEN Raise(addCheck(self, src), self)
        ELSE IF self.Encoding # "None" /\ c.err # "" THEN Raise(c.err, self)
        ELSE IF o.err # "" THEN Raise(o.err, self)
        ELSE IF f.err # "" THEN Raise(f.err, self)
        ELSE IF self.CV.present /\ cv.err # "" THEN Raise(cv.err, self)
        ELSE IF ph.err # "" THEN Raise(ph.err, self)
        ELSE LET r == NewPopulation(self.Encoding, self.Field, self.sizes + src.sizes,
                                    IF self.Encoding = "None" THEN NoneM ELSE c.m,
                                    o.m, f.m,
                                    IF self.CV.present THEN cv.m ELSE self.CV,
                                    ph.m)
             IN  [r EXCEPT !.self = self]

\* Population.__len__
len(self) == self.sizes

(* ------------------------- arguments drawn ---------------------------- *)

Attrs == {"Chrom", "ObjV", "FitnV", "CV", "Phen"}

Fields == {1, 2}

\* The r rows of one attribute of the individuals s, s + 1, ...: cell
\* values base, base + 1 so that the attributes are told apart.
RowsOf(r, s, L, base) == [i \in 1..r |-> [j \in 1..L |-> base + RowOf(s + i - 1, L)[j]]]

\* Constructor arguments: scheme enc, decode field fld, size n, and for
\* each attribute not in absent a matrix of r rows.
ArgsOf(enc, fld, n, r, s, absent) ==
    [Encoding |-> enc, Field |-> fld, NIND |-> n,
     Chrom |-> IF "Chrom" \in absent THEN NoneM ELSE Mat(fld, RowsOf(r, s, fld, 0)),
     ObjV  |-> IF "ObjV"  \in absent THEN NoneM ELSE Mat(1, RowsOf(r, s, 1, 2)),
     FitnV |-> IF "FitnV" \in absent THEN NoneM ELSE Mat(1, RowsOf(r, s, 1, 4)),
     CV    |-> IF "CV"    \in absent THEN NoneM ELSE Mat(1, RowsOf(r, s, 1, 6)),
     Phen  |-> IF "Phen"  \in absent THEN NoneM ELSE Mat(fld, RowsOf(r, s, fld, 0))]

NoArgs == ArgsOf("None", NoField, 0, 0, 0, Attrs)

\* Which attributes a caller leaves out.
SelfAbsent == {{}, {"CV"}, {"ObjV"}, {"Phen"}, {"Chrom"}, {"FitnV"},
               {"FitnV", "Phen"}, {"ObjV", "FitnV", "CV", "Phen"}, Attrs}

SrcAbsent == {{}, {"CV"}, {"ObjV"}, {"Phen"}, {"Chrom"}}

\* Arguments of the target's construction: a size, -1 among them, and
\* matrices of that many rows.
SelfArgs ==
    {ArgsOf(enc, 2, n, n, 0, ab) : enc \in Encodings, n \in -1..MaxN, ab \in SelfAbsent}

\* Arguments of the other population of an assignment or a merge.
SrcArgs ==
    {ArgsOf(enc, 2, n, n, 1, ab) : enc \in Encodings, n \in 0..MaxN, ab \in SrcAbsent}
    \cup {ArgsOf("RI", 1, n, n, 1, ab) : n \in 0..MaxN, ab \in SrcAbsent}

New(a) == NewPopulation(a.Encoding, a.Field, a.NIND, a.Chrom, a.ObjV, a.FitnV, a.CV, a.Phen)

\* Index arrays: up to MaxN positions among 0 .. MaxN - 1.
Indices == UNION {[1..k -> 0..(MaxN - 1)] : k \in 0..MaxN}

\* The permutations of 0 .. n - 1, as index arrays.
Perms(n) == {p \in [1..n -> 0..(n - 1)] : \A i, j \in 1..n : p[i] = p[j] => i = j}

(* ------------------------------ actions ------------------------------- *)

\* What the last call was, what it was given and what came of it.
Call(op, err, args, index, src, res, mat, n) ==
    [op |-> op, err |-> err, args |-> args, index |-> index, pre |-> pop,
     src |-> src, res |-> res, mat |-> mat, n |-> n]

\* The calls that return a value and leave pop as it is.
Queries == {"decoding", "copy", "__getitem__", "__add__", "__len__"}

\* The last call changed pop.  A call that left pop as it was is followed
\* by the binding of its result only: every call made after it would
\* repeat, with the same outcome, a call made before it.
Effect == last.op \notin Queries /\ ~(last.err # "" /\ pop = last.pre)

Init ==
    /\ pop = NoPop
    /\ nbin = 0
    /\ nops = 0
    /\ last = [op |-> "", err |-> "", args |-> NoArgs, index |-> <<>>, pre |-> NoPop,
               src |-> NoPop, res |-> NoPop, mat |-> NoneM, n |-> 0]

\* population = Population(Encoding, Field, NIND, ...)
PopulationInit ==
    /\ pop = NoPop
    /\ last.op = ""
    /\ \E a \in SelfArgs :
          LET r == New(a)
          IN  /\ pop' = r.ret
              /\ last' = Call("__init__", r.err, a, <<>>, NoPop, r.ret, NoneM, 0)
    /\ UNCHANGED <<nbin, nops>>

\* pop.initChrom() and pop.initChrom(NIND)
InitChrom ==
    /\ pop # NoPop
    /\ Effect
    /\ nops < MaxOps
    /\ \E NIND \in {NoNIND} \cup 0..MaxN :
          \E c \in crtpc(pop.Encoding, initSize(pop, NIND), pop.Field) :
             LET r == initChrom(pop, NIND, c)
             IN  /\ pop' = r.self
                 /\ last' = Call("initChrom", r.err, NoArgs, <<>>, NoPop, NoPop, NoneM, NIND)
    /\ nops' = nops + 1
    /\ UNCHANGED nbin

\* pop.decoding()
Decoding ==
    /\ pop # NoPop
    /\ Effect
    /\ LET d == decoding(pop)
       IN  last' = Call("decoding", d.err, NoArgs, <<>>, NoPop, NoPop, d.m, 0)
    /\ UNCHANGED <<pop, nbin, nops>>

\* pop.copy()
Copy ==
    /\ pop # NoPop
    /\ Effect
    /\ LET r == copy(pop)
       IN  last' = Call("copy", r.err, NoArgs, <<>>, NoPop, r.ret, NoneM, 0)
    /\ UNCHANGED <<pop, nbin, nops>>

\* pop[index]
GetItem ==
    /\ pop # NoPop
    /\ Effect
    /\ \E index \in Indices :
          LET r == getitem(pop, index)
          IN  last' = Call("__getitem__", r.err, NoArgs, index, NoPop, r.ret, NoneM, 0)
    /\ UNCHANGED <<pop, nbin, nops>>

\* pop.shuffle()
Shuffle ==
    /\ pop # NoPop
    /\ Effect
    /\ nops < MaxOps
    /\ \E shuff \in Perms(pop.sizes) :
          LET r == shuffle(pop, shuff)
          IN  /\ pop' = r.self
              /\ last' = Call("shuffle", r.err, NoArgs, shuff, NoPop, NoPop, NoneM, 0)
    /\ nops' = nops + 1
    /\ UNCHANGED nbin

\* pop[index] = Population(...)
SetItem ==
    /\ pop # NoPop
    /\ Effect
    /\ nops < MaxOps
    /\ nbin < MaxBinary
    /\ \E index \in Indices, a \in SrcArgs :
          \E w \in Winners(index) :
             LET src == New(a).ret
                 r   == setitem(pop, index, src, w)
             IN  /\ pop' = r.self
                 /\ last' = Call("__setitem__", r.err, NoArgs, index, src, NoPop, NoneM, 0)
                 /\ nbin' = IF r.err # "" /\ r.self = pop THEN nbin ELSE nbin + 1
    /\ nops' = nops + 1

\* pop + Population(...)
Add ==
    /\ pop # NoPop
    /\ Effect
    /\ nbin < MaxBinary
    /\ \E a \in SrcArgs :
          LET src == New(a).ret
              r   == add(pop, src)
          IN  /\ last' = Call("__add__", r.err, NoArgs, <<>>, src, r.ret, NoneM, 0)
              /\ nbin' = IF r.err # "" THEN nbin ELSE nbin + 1
    /\ UNCHANGED <<pop, nops>>

\* len(pop)
Len_ ==
    /\ pop # NoPop
    /\ Effect
    /\ last' = Call("__len__", "", NoArgs, <<>>, NoPop, NoPop, NoneM, len(pop))
    /\ UNCHANGED <<pop, nbin, nops>>

\* pop = pop.copy(), pop = pop[index], pop = pop + other: the caller goes
\* on with the population the last call returned.
Rebind ==
    /\ last.op \in {"copy", "__getitem__", "__add__"}
    /\ last.err = ""
    /\ pop' = last.res
    /\ nops < MaxOps
    /\ last' = [Call("=", "", NoArgs, <<>>, NoPop, NoPop, NoneM, 0) EXCEPT !.pre = NoPop]
    /\ nops' = nops + 1
    /\ UNCHANGED nbin

Next ==
    \/ PopulationInit
    \/ InitChrom
    \/ Decoding
    \/ Copy
    \/ GetItem
    \/ Shuffle
    \/ SetItem
    \/ Add
    \/ Len_
    \/ Rebind

Spec == Init /\ [][Next]_vars

(* ------------------------------ claims -------------------------------- *)

Attr(p, X) ==
    CASE X = "Chrom" -> p.Chrom
      [] X = "ObjV"  -> p.ObjV
      [] X = "FitnV" -> p.FitnV
      [] X = "CV"    -> p.CV
      [] X = "Phen"  -> p.Phen

\* Every present attribute matrix of p has p.sizes rows.
RowAligned(p) == \A X \in Attrs : Attr(p, X).present => Shape0(Attr(p, X)) = p.sizes

\* Lind is Chrom's column count, 0 without a Chrom.
LindOk(p) == p.Lind = IF p.Chrom.present THEN p.Chrom.nc ELSE 0

\* The last call completed without error.
Done(op) == last.op = op /\ last.err = ""

\* C1: after every public operation that completes without error, every
\* present attribute matrix of the resulting Population (the target, and
\* the Population returned) has exactly sizes rows, and len() returns sizes.
C1_RowAlignment ==
    (last.op # "" /\ last.err = "") =>
        /\ pop # NoPop => RowAligned(pop)
        /\ last.res # NoPop => RowAligned(last.res)
        /\ last.op = "__len__" => last.n = pop.sizes

\* The construction C2 is about: scheme RI or P, a decode field, size N, a
\* genotype of N rows, neither phenotype nor fitness supplied.
C2_Case ==
    /\ last.op = "__init__"
    /\ last.args.Encoding \in {"RI", "P"}
    /\ last.args.Field # NoField
    /\ last.args.NIND >= 0
    /\ last.args.Chrom.present
    /\ Shape0(last.args.Chrom) = last.args.NIND
    /\ ~last.args.Phen.present
    /\ ~last.args.FitnV.present

\* C2 as claimed: that construction yields a Population whose phenotype
\* equals the genotype row for row and whose fitness is N x 1 ones.
C2_ConstructDecodes ==
    C2_Case =>
        /\ last.err = ""
        /\ pop.Phen.present
        /\ pop.Phen.rows = last.args.Chrom.rows
        /\ pop.FitnV = Ones(last.args.NIND)

\* C2 amended: that construction stores the phenotype argument as it is,
\* so the phenotype is absent; the genotype is the one passed and the
\* fitness is N x 1 ones; and decoding() of an RI or P population with a
\* genotype returns a matrix equal to the genotype row for row.
C2_ConstructThenDecode ==
    /\ C2_Case =>
          /\ last.err = ""
          /\ ~pop.Phen.present
          /\ pop.Chrom = last.args.Chrom
          /\ pop.sizes = last.args.NIND
          /\ pop.FitnV.present /\ pop.FitnV.nc = 1
          /\ Shape0(pop.FitnV) = last.args.NIND
          /\ \A i \in 1..last.args.NIND : pop.FitnV.rows[i] = <<1>>
    /\ (last.op = "decoding" /\ pop.Encoding \in {"RI", "P"} /\ pop.Chrom.present) =>
          /\ last.err = ""
          /\ last.mat.present
          /\ last.mat.rows = pop.Chrom.rows

C2_Witness ==
    /\ C2_Case
    /\ last.args.NIND = MaxN
    /\ last.err = ""
    /\ ~pop.Phen.present
    /\ pop.FitnV.rows = [i \in 1..MaxN |-> <<1>>]

\* C3: pop[index] = src with len(index) # src.sizes always fails, whatever
\* the target's encoding, and leaves the target as it was.
C3_SizeMismatchFails ==
    (last.op = "__setitem__" /\ Len(last.index) # last.src.sizes) =>
        /\ last.err # ""
        /\ pop = last.pre

\* The merge preconditions: same scheme and decode field, both genotypes
\* present for an encoded self, matching CV presence.
MergePre(A, B) ==
    /\ A.Encoding = B.Encoding
    /\ A.Field = B.Field
    /\ A.Encoding # "None" => (A.Chrom.present /\ B.Chrom.present)
    /\ A.CV.present = B.CV.present

\* C4: a merge A + B of two populations that satisfy the preconditions is
\* a new Population of A.sizes + B.sizes individuals; every attribute is
\* A's rows followed by B's rows, an attribute absent in both is absent in
\* the result; A is left unchanged.
C4_MergeLaw ==
    (Done("__add__") /\ MergePre(last.pre, last.src)) =>
        /\ last.res.sizes = last.pre.sizes + last.src.sizes
        /\ pop = last.pre
        /\ \A X \in Attrs :
              LET a == Attr(last.pre, X)
                  b == Attr(last.src, X)
                  c == Attr(last.res, X)
              IN  /\ (~a.present /\ ~b.present) => ~c.present
                  /\ (a.present /\ b.present) => (c.present /\ c.rows = a.rows \o b.rows)

\* C5: a merge or an indexed assignment in which exactly one of the two
\* CVs is absent fails, whatever the encoding; the CV of a merge that
\* succeeds is present exactly when A's is.
C5_CVPresenceMatches ==
    /\ (last.op \in {"__add__", "__setitem__"}
          /\ last.pre.CV.present # last.src.CV.present) => last.err # ""
    /\ Done("__add__") => (last.res.CV.present = last.pre.CV.present)

\* Row p of the value matrix V, broadcast to the row shape of M.
Bcast(M, V, i) ==
    [j \in 1..M.nc |->
        Conv(M.dt, V.rows[IF Shape0(V) = 1 THEN 1 ELSE i][IF V.nc = 1 THEN 1 ELSE j])]

\* C6 as claimed, for one attribute M of the target, N being M afterwards
\* and V the attribute of src: rows outside index keep their value, row
\* index[i] is row i of src (where src has such a row).
AssignedAsClaimed(M, N, V, index) ==
    M.present =>
        /\ N.present /\ Shape0(N) = Shape0(M)
        /\ \A k \in 1..Shape0(M) : (k - 1) \notin Range(index) => N.rows[k] = M.rows[k]
        /\ \A i \in 1..Len(index) :
              (V.present /\ i <= Shape0(V)) => N.rows[index[i] + 1] = V.rows[i]

AssignedAsCoded(M, N, V, index) ==
    /\ N.present = M.present
    /\ N.nc = M.nc
    /\ N.dt = M.dt
    /\ Shape0(N) = Shape0(M)
    /\ \A k \in 1..Shape0(M) : (k - 1) \notin Range(index) => N.rows[k] = M.rows[k]
    /\ \A p \in Range(index) :
          IF V.present
          THEN \E i \in 1..Len(index) : index[i] = p /\ N.rows[p + 1] = Bcast(M, V, i)
          ELSE \A j \in 1..M.nc : N.rows[p + 1][j] = Conv(M.dt, NoneV)
    /\ \A i \in 1..Len(index) :
          (  V.present /\ Shape0(V) = Len(index) /\ V.nc = M.nc /\ V.dt = M.dt
          /\ \A k \in 1..Len(index) : index[k] = index[i] => k = i)
          => N.rows[index[i] + 1] = V.rows[i]

C7_ShuffleBijection ==
    Done("shuffle") =>
        /\ \E p \in Perms(last.pre.sizes) :
              \A X \in Attrs :
                 LET M == Attr(last.pre, X)
                     N == Attr(pop, X)
                 IN  /\ N.present = M.present
                     /\ M.present =>
                           /\ Shape0(N) = Shape0(M)
                           /\ Shape0(M) = last.pre.sizes
                           /\ \A i \in 1..Shape0(N) : N.rows[i] = M.rows[p[i] + 1]
        /\ pop.sizes = last.pre.sizes
        /\ pop.Encoding = last.pre.Encoding
        /\ pop.Field = last.pre.Field
        /\ pop.Lind = last.pre.Lind

\* C8: pop[idx], idx over 0..sizes-1, fails only for an encoded population
\* without a genotype; otherwise it returns a new Population of len(idx)
\* individuals whose row i is row idx[i] of the source in every present
\* attribute, absent attributes staying absent; the source is unchanged.
C8_IndexedRead ==
    (last.op = "__getitem__"
       /\ \A i \in 1..Len(last.index) : last.index[i] \in 0..(last.pre.sizes - 1)) =>
        /\ last.err # "" <=> (last.pre.Encoding # "None" /\ ~last.pre.Chrom.present)
        /\ pop = last.pre
        /\ last.err = "" =>
              /\ last.res.sizes = Len(last.index)
              /\ \A X \in Attrs :
                    LET M == Attr(last.pre, X)
                        N == Attr(last.res, X)
                    IN  /\ N.present = M.present
                        /\ M.present =>
                              /\ Shape0(N) = Len(last.index)
                              /\ \A i \in 1..Len(last.index) :
                                    N.rows[i] = M.rows[last.index[i] + 1]

\* C9: after every public operation that completes without error, Lind is
\* the column count of Chrom, and 0 when Chrom is absent.
C9_LindIsChromWidth ==
    (last.op # "" /\ last.err = "") =>
        /\ pop # NoPop => LindOk(pop)
        /\ last.res # NoPop => LindOk(last.res)

\* C10: when initChrom, indexed assignment, merge, indexed read or shuffle
\* ends in an error, the target is exactly what it was before the call.
C10_ErrorAtomicity ==
    (last.op \in {"initChrom", "__setitem__", "__add__", "__getitem__", "shuffle"}
       /\ last.err # "") => pop = last.pre

====
